---- MODULE Spec2Model ----
(***************************************************************************)
(* git-biasect: parallel speculative bisection.                            *)
(*                                                                         *)
(* The orchestration loop is `main` of src/src/bin/git-biasect.rs (the     *)
(* `run` subcommand).  The library functions it calls, git_biasect::alloc  *)
(* ::{init, step, BasicAllocator}, are modelled from the specification     *)
(* (sections 3, 4.1 and 4.2).                                              *)
(*                                                                         *)
(* Three specifications:                                                   *)
(*   Spec        the orchestrator with workers that end at any time, with  *)
(*               any exit status, and kills that may fail;                 *)
(*   SpecAlloc   the allocator as a pure function of state and capacity;   *)
(*   SpecRounds  the orchestrator with workers that all take the same      *)
(*               time, on a sequence with one good-to-bad transition.      *)
(***************************************************************************)
EXTENDS Integers, Sequences, FiniteSets, TLC

\* ------------------------------------------------------------------ bounds
MaxLen == 5        \* longest candidate sequence of an asynchronous run
MaxJobs == 3       \* largest -j
MaxLenRounds == 9  \* longest candidate sequence of a lockstep run

\* ------------------------------------------------------------------ state
VARIABLES
    len,        \* commits.len() (get_commits), fixed for the run
    jobs,       \* run_opts.jobs
    reckless,   \* run_opts.reckless
    pc,         \* position of main: "start", "loop", "done", "halted", "panicked"
    commits,    \* state.commits: index -> Status
    assigned,   \* state.runners.commits: the Assignment set
    runners,    \* main's `runners` table: indices that have a Child handle
    proc,       \* per index, the worker process: "none", "running",
                \* "exited" (ended, not yet polled), "seen" (try_wait returned
                \* its status, result deferred), "reaped" (result processed),
                \* "killed" (cancelled by the step of the poll that first saw
                \* it, or earlier), "dropped" (cancelled after an earlier poll
                \* had seen its status: a deferred result that is discarded)
    exit,       \* per index, the ExitStatus held by the handle of an exited worker
    reported,   \* the calls made to bisect_report, in order: <<index, Status>>
    loop_iter,  \* main's loop_iter: the number of loop iterations begun
    picked,     \* commit_index_exit_code: the completion picked by the latest poll
    new_runners,\* the indices most recently proposed by the allocator
    tp,         \* lockstep runs: the first bad index of the sequence under test
    round       \* lockstep runs: the number of parallel rounds of workers so far

vars == <<len, jobs, reckless, pc, commits, assigned, runners, proc, exit,
          reported, loop_iter, picked, new_runners, tp, round>>

Indices == 0 .. ((IF MaxLen > MaxLenRounds THEN MaxLen ELSE MaxLenRounds) - 1)

Idx(n) == 0 .. (n - 1)

Statuses == {"Unknown", "Good", "Bad", "Skip"}

\* ExitStatus of a child: either an exit code or, when killed by a signal,
\* no code and a signal number.
NoExit == [kind |-> "none", n |-> 0]

ExitStatuses ==
    { [kind |-> "code", n |-> 0],
      [kind |-> "code", n |-> 124],
      [kind |-> "code", n |-> 1],
      [kind |-> "signal", n |-> 9] }

NoPick == [idx |-> -1, st |-> NoExit]

\* ------------------------------------------------------------------ helpers
Max(S) == CHOOSE x \in S : \A y \in S : y <= x

Min(S) == CHOOSE x \in S : \A y \in S : x <= y

MinOf(a, b) == IF a <= b THEN a ELSE b

\* The elements of a finite set of integers in ascending order.
RECURSIVE SortedSeq(_)
SortedSeq(S) ==
    IF S = {} THEN <<>> ELSE <<Min(S)>> \o SortedSeq(S \ {Min(S)})

\* ------------------------------------------------------------------ library
\* lo: highest index resolved Good, default 0.
Lo(cs, n) ==
    LET G == {i \in Idx(n) : cs[i] = "Good"}
    IN  IF G = {} THEN 0 ELSE Max(G)

\* hi: lowest index resolved Bad, default the last index.
Hi(cs, n) ==
    LET B == {i \in Idx(n) : cs[i] = "Bad"}
    IN  IF B = {} THEN n - 1 ELSE Min(B)

\* Mutant of Available: indices already assigned stay candidates.
AvailableIgnoringAssigned(cs, n, asg) ==
    {i \in Idx(n) : /\ Lo(cs, n) < i
                    /\ i < Hi(cs, n)
                    /\ cs[i] = "Unknown"}

\* Candidates of the allocator: unresolved, unassigned, strictly inside (lo, hi).
Available(cs, n, asg) ==
    {i \in Idx(n) : /\ Lo(cs, n) < i
                    /\ i < Hi(cs, n)
                    /\ cs[i] = "Unknown"
                    /\ i \notin asg}

\* j * a / b rounded to the nearest integer (half up).
RoundDiv(a, b) == (2 * a + b) \div (2 * b)

\* Mutant of Propose: plain bisection, one midpoint whatever the capacity.
ProposeMidpoint(cs, n, asg, capacity) ==
    LET av == SortedSeq(Available(cs, n, asg))
        m  == Len(av)
        k  == MinOf(MinOf(capacity, 1), m)
    IN  {av[RoundDiv(j * (m + 1), k + 1)] : j \in 1 .. k}

\* k-way proposal: up to `capacity` candidates that cut the candidates as
\* evenly as possible into capacity + 1 segments.
Propose(cs, n, asg, capacity) ==
    LET av == SortedSeq(Available(cs, n, asg))
        m  == Len(av)
        k  == MinOf(capacity, m)
    IN  {av[RoundDiv(j * (m + 1), k + 1)] : j \in 1 .. k}

\* init(&commits, jobs, check_bounds): every record Unknown, the initial
\* assignment is the allocator's proposal for capacity = jobs (section 4.3).
\* main passes check_bounds = !reckless (line 120); RunOptions documents
\* reckless as "Don't check that the bounds of the bisection (good/bad) can be
\* replicated using the given script" (line 44), and main treats results at
\* index 0 and at the last index (lines 180, 198, 254).  So with check_bounds
\* the two bounds are given to workers first, and the rest of the capacity
\* goes to the allocator.
BoundsChecks(n, capacity, check_bounds) ==
    IF ~check_bounds \/ capacity = 0 THEN {}
    ELSE IF capacity = 1 THEN {0}
    ELSE {0, n - 1}

InitCommits(n) == [i \in Indices |-> "Unknown"]

InitAssigned(n, capacity, check_bounds) ==
    LET bc == BoundsChecks(n, capacity, check_bounds)
    IN  bc \cup Propose(InitCommits(n), n, bc, capacity - Cardinality(bc))

\* Mutant of StepCommits: the result is recorded into fresh records.
StepCommitsFresh(cs, idx, result) ==
    [i \in Indices |-> IF i = idx THEN result ELSE "Unknown"]

\* step (section 4.2).  1: the result is recorded and its Assignment removed.
StepCommits(cs, idx, result) == [cs EXCEPT ![idx] = result]

\* 3: the assignments that now fall outside (lo, hi).  The just-resolved
\* index has no assignment left; main drops its handle itself (line 301).
Stale(cs, n, asg, idx) ==
    {i \in asg \ {idx} : i <= Lo(cs, n) \/ i >= Hi(cs, n)}

Surviving(cs, n, asg, idx) == (asg \ {idx}) \ Stale(cs, n, asg, idx)

\* 4: the slots that are free once the just-resolved slot and the stale ones
\* are given up: jobs less the surviving assignments.
FreeCapacity(cs, n, asg, idx, capacity) ==
    capacity - Cardinality(Surviving(cs, n, asg, idx))

StepNew(cs, n, asg, idx, capacity) ==
    Propose(cs, n, Surviving(cs, n, asg, idx),
            FreeCapacity(cs, n, asg, idx, capacity))

\* ------------------------------------------------------------------ main
\* exit_code = status.code().or_else(|| status.signal())
ExitCode(st) == st.n

\* Mutant of Classify: exit code 124 is not told apart (lines 172-173 missing).
ClassifyNoSkip(st) == IF ExitCode(st) = 0 THEN "Good" ELSE "Bad"

\* lines 170-176
Classify(st) ==
    IF ExitCode(st) = 0 THEN "Good"
    ELSE IF ExitCode(st) = 124 THEN "Skip"
    ELSE "Bad"

\* Mutant of bounds_validated: `||` in place of `&&` on line 98.
bounds_validated_either(cs, n, reckless_mode) ==
    \/ reckless_mode
    \/ n = 0
    \/ \E i \in Idx(n) : cs[i] = "Good"
    \/ \E i \in Idx(n) : cs[i] = "Bad"

\* Mutant of bounds_validated: reckless_mode is ignored (line 92).
bounds_validated_always_checked(cs, n, reckless_mode) ==
    \/ n = 0
    \/ /\ \E i \in Idx(n) : cs[i] = "Good"
       /\ \E i \in Idx(n) : cs[i] = "Bad"

bounds_validated(cs, n, reckless_mode) ==
    \/ reckless_mode
    \/ n = 0
    \/ /\ \E i \in Idx(n) : cs[i] = "Good"
       /\ \E i \in Idx(n) : cs[i] = "Bad"

\* The reports bisect_report_all makes: every non-Unknown record, in index order.
RECURSIVE ReportAllFrom(_, _, _)
ReportAllFrom(cs, n, i) ==
    IF i >= n THEN <<>>
    ELSE (IF cs[i] # "Unknown" THEN << <<i, cs[i]>> >> ELSE <<>>)
         \o ReportAllFrom(cs, n, i + 1)

bisect_report_all(cs, n) == ReportAllFrom(cs, n, 0)

\* Mutant of BoundsViolation: the check of the newest commit (lines 198-199)
\* is missing.
BoundsViolationOldestOnly(idx, n, status) == idx = 0 /\ status = "Bad"

\* Mutant of BoundsViolation: `!= Status::Good` and `!= Status::Bad` in place
\* of `== Status::Bad` and `== Status::Good`.
BoundsViolationUnlessExpected(idx, n, status) ==
    \/ idx = 0 /\ status # "Good"
    \/ idx = n - 1 /\ status # "Bad"

\* lines 180 and 198-199: the result contradicts a bound of the bisection.
BoundsViolation(idx, n, status) ==
    \/ idx = 0 /\ status = "Bad"
    \/ idx = n - 1 /\ status = "Good"

\* lines 252-270: what the iteration reports, given the state after step.
Reports(cs, n, reckless_mode, c, status) ==
    IF bounds_validated(cs, n, reckless_mode) /\ (c = 0 \/ c = n - 1)
    THEN bisect_report_all(cs, n)
    ELSE IF bounds_validated(cs, n, reckless_mode)
    THEN << <<c, status>> >>
    ELSE <<>>

\* Mutant of NextRunners: the newly started runners are not chained on.
NextRunnersKeptOnly(rs, invalidated, c, started) ==
    rs \ (invalidated \cup {c})

\* Mutant of NextRunners: the kept handles are lost, only the new ones stay.
NextRunnersNewOnly(rs, invalidated, c, started) == started

\* Mutant of NextRunners: no handle is filtered out (lines 299-302 missing).
NextRunnersAll(rs, invalidated, c, started) == rs \cup started

\* Mutant of NextRunners: the invalidated handles are not filtered out
\* (line 300 missing).
NextRunnersKeepInvalidated(rs, invalidated, c, started) ==
    (rs \ {c}) \cup started

\* lines 297-312: the handles kept (neither invalidated nor the resolved one)
\* chained with the handles of the newly started runners.
NextRunners(rs, invalidated, c, started) ==
    (rs \ (invalidated \cup {c})) \cup started

\* The runners whose try_wait returns Some(status) at this poll tick: the
\* script ended, or the child was killed.
Completed ==
    {r \in runners : proc[r] \in {"exited", "seen", "killed", "dropped"}}

\* Mutant of AfterKill: the Err of Child::kill is ignored (line 291 missing).
AfterKillIgnoreError(failing) == "continue"

\* lines 287-292: every kill returned Ok, or one returned Err and main panics.
AfterKill(failing) == IF failing = {} THEN "continue" ELSE "panic"

Init ==
    /\ len \in 2 .. MaxLen
    /\ jobs \in 0 .. MaxJobs
    /\ reckless \in BOOLEAN
    /\ pc = "start"
    /\ commits = [i \in Indices |-> "Unknown"]
    /\ assigned = {}
    /\ runners = {}
    /\ proc = [i \in Indices |-> "none"]
    /\ exit = [i \in Indices |-> NoExit]
    /\ reported = <<>>
    /\ loop_iter = 0
    /\ picked = NoPick
    /\ new_runners = {}
    /\ tp = 0
    /\ round = 0

\* lines 120-130: init, then start_runners for the initial assignment.
Start ==
    /\ pc = "start"
    /\ pc' = "loop"
    /\ commits' = InitCommits(len)
    /\ assigned' = InitAssigned(len, jobs, ~reckless)
    /\ runners' = assigned'
    /\ proc' = [i \in Indices |-> IF i \in assigned' THEN "running" ELSE "none"]
    /\ new_runners' = assigned'
    /\ UNCHANGED <<len, jobs, reckless, exit, reported, loop_iter, picked, tp, round>>

\* A worker's script ends while the orchestrator is running (environment).
WorkerExit(i, st) ==
    /\ pc = "loop"
    /\ proc[i] = "running"
    /\ proc' = [proc EXCEPT ![i] = "exited"]
    /\ exit' = [exit EXCEPT ![i] = st]
    /\ UNCHANGED <<len, jobs, reckless, pc, commits, assigned, runners,
                   reported, loop_iter, picked, new_runners, tp, round>>

\* lines 133-218: the iteration picks completion c, which contradicts a
\* bound; main returns Ok(()) before step.
Halt(c) ==
    /\ pc = "loop"
    /\ c \in Completed
    /\ BoundsViolation(c, len, Classify(exit[c]))
    /\ pc' = "halted"
    /\ loop_iter' = loop_iter + 1
    /\ picked' = [idx |-> c, st |-> exit[c]]
    /\ proc' = [i \in Indices |-> IF i \in Completed THEN "seen" ELSE proc[i]]
    /\ UNCHANGED <<len, jobs, reckless, commits, assigned, runners, exit,
                   reported, new_runners, tp, round>>

\* lines 272-295: the handles main calls kill on after processing c.
Victims(c) ==
    runners \cap (assigned \cap
        Stale(StepCommits(commits, c, Classify(exit[c])), len, assigned, c))

\* lines 133-316: one loop iteration that processes completion c.
\* failing: the stale workers whose Child::kill returns Err, if any; killed:
\* the stale workers killed before the first failure.
Iterate(c, killed, failing) ==
    /\ pc = "loop"
    /\ c \in Completed
    /\ ~BoundsViolation(c, len, Classify(exit[c]))
    /\ loop_iter' = loop_iter + 1
    /\ picked' = [idx |-> c, st |-> exit[c]]
    /\ IF c \notin assigned
       THEN \* lines 227-242: the start-time lookup unwraps None
            /\ killed = {} /\ failing = {}
            /\ pc' = "panicked"
            /\ UNCHANGED <<commits, assigned, runners, proc, exit, reported,
                           new_runners>>
       ELSE
       LET status      == Classify(exit[c])
           cs          == StepCommits(commits, c, status)
           invalidated == Stale(cs, len, assigned, c)
           proposed    == StepNew(cs, len, assigned, c, jobs)
           victims     == Victims(c)
           reps        == Reports(cs, len, reckless, c, status)
       IN  /\ failing = {} => killed = victims
           /\ killed \cup failing \subseteq victims
           /\ killed \cap failing = {}
           /\ commits' = cs
           /\ new_runners' = proposed
           /\ assigned' = Surviving(cs, len, assigned, c) \cup proposed
           /\ reported' = reported \o reps
           /\ IF AfterKill(failing) = "continue"
              THEN /\ runners' = NextRunners(runners, invalidated, c, proposed)
                   /\ proc' = [i \in Indices |->
                                 IF i \in proposed THEN "running"
                                 ELSE IF i \in failing THEN "kill_failed"
                                 ELSE IF i \in victims
                                 THEN (IF proc[i] = "seen" THEN "dropped"
                                       ELSE "killed")
                                 ELSE IF i = c THEN "reaped"
                                 ELSE IF i \in Completed THEN "seen"
                                 ELSE proc[i]]
                   /\ exit' = [i \in Indices |->
                                 IF i \in victims \cup {c} THEN NoExit ELSE exit[i]]
                   /\ pc' = IF runners' = {} THEN "done" ELSE "loop"
              ELSE \* line 291: panic!("Failed to kill invalidated runner")
                   /\ pc' = "panicked"
                   /\ proc' = [i \in Indices |->
                                 IF i \in failing THEN "kill_failed"
                                 ELSE IF i \in killed /\ proc[i] = "running"
                                 THEN "killed"
                                 ELSE IF i \in Completed THEN "seen"
                                 ELSE proc[i]]
                   /\ UNCHANGED <<runners, exit>>
    /\ UNCHANGED <<len, jobs, reckless, tp, round>>

Next ==
    \/ Start
    \/ \E i \in runners, st \in ExitStatuses : WorkerExit(i, st)
    \/ \E c \in Completed : Halt(c)
    \/ \E c \in Completed :
          \E failing \in {{}} \cup {{v} : v \in Victims(c)} :
             \E killed \in SUBSET (Victims(c) \ failing) :
                Iterate(c, killed, failing)

Spec == Init /\ [][Next]_vars

\* ------------------------------------------------------------------ allocator
\* The allocator as a pure function: every BisectionState whose records are
\* consistent (no Bad oldest, no Good newest, every Good below every Bad,
\* assignments only on Unknown records) and every capacity.
ConsistentState(cs, n, asg) ==
    /\ \A i \in Indices : i >= n => cs[i] = "Unknown"
    /\ cs[0] # "Bad" /\ cs[n - 1] # "Good"
    /\ \A g, b \in Idx(n) : (cs[g] = "Good" /\ cs[b] = "Bad") => g < b
    /\ \A i \in asg : cs[i] = "Unknown"

InitAlloc ==
    /\ len \in 2 .. MaxLen
    /\ jobs \in 0 .. MaxJobs
    /\ reckless = TRUE
    /\ pc = "alloc"
    /\ \E f \in [Idx(len) -> Statuses] :
          commits = [i \in Indices |-> IF i < len THEN f[i] ELSE "Unknown"]
    /\ assigned \in SUBSET Idx(len)
    /\ ConsistentState(commits, len, assigned)
    /\ runners = assigned
    /\ proc = [i \in Indices |-> IF i \in assigned THEN "running" ELSE "none"]
    /\ exit = [i \in Indices |-> NoExit]
    /\ reported = <<>>
    /\ loop_iter = 0
    /\ picked = NoPick
    /\ new_runners = {}
    /\ tp = 0
    /\ round = 0

\* propose(state, capacity) with capacity = jobs.
AllocPropose ==
    /\ pc = "alloc"
    /\ pc' = "proposed"
    /\ new_runners' = Propose(commits, len, assigned, jobs)
    /\ UNCHANGED <<len, jobs, reckless, commits, assigned, runners, proc, exit,
                   reported, loop_iter, picked, tp, round>>

NextAlloc == AllocPropose

SpecAlloc == InitAlloc /\ [][NextAlloc]_vars

\* ------------------------------------------------------------------ lockstep
\* Runs in which every worker takes the same time: the workers running in a
\* round all end together, each Good below the transition point tp and Bad
\* from it on; the orchestrator then processes the completions one iteration
\* at a time, and the workers it launches meanwhile run in the next round.
\* No kill fails.
InitRounds ==
    /\ len \in 2 .. MaxLenRounds
    /\ jobs \in 1 .. MaxJobs
    /\ reckless = TRUE
    /\ tp \in 1 .. (len - 1)
    /\ round = 0
    /\ pc = "start"
    /\ commits = [i \in Indices |-> "Unknown"]
    /\ assigned = {}
    /\ runners = {}
    /\ proc = [i \in Indices |-> "none"]
    /\ exit = [i \in Indices |-> NoExit]
    /\ reported = <<>>
    /\ loop_iter = 0
    /\ picked = NoPick
    /\ new_runners = {}

RoundEnds ==
    /\ pc = "loop"
    /\ runners # {}
    /\ Completed = {}
    /\ round' = round + 1
    /\ proc' = [i \in Indices |-> IF i \in runners THEN "exited" ELSE proc[i]]
    /\ exit' = [i \in Indices |->
                  IF i \in runners
                  THEN [kind |-> "code", n |-> IF i < tp THEN 0 ELSE 1]
                  ELSE exit[i]]
    /\ UNCHANGED <<len, jobs, reckless, pc, commits, assigned, runners,
                   reported, loop_iter, picked, new_runners, tp>>

NextRounds ==
    \/ Start
    \/ RoundEnds
    \/ \E c \in Completed : Iterate(c, Victims(c), {})

SpecRounds == InitRounds /\ [][NextRounds]_vars /\ WF_vars(NextRounds)

\* ------------------------------------------------------------------ claims
HasGood(cs) == \E i \in Idx(len) : cs[i] = "Good"

HasBad(cs) == \E i \in Idx(len) : cs[i] = "Bad"

\* The exit status st at index i contradicts a bound: the oldest commit
\* neither good nor skipped, or the newest commit good.
ContradictsBound(i, st) ==
    \/ i = 0 /\ st.n # 0 /\ st.n # 124
    \/ i = len - 1 /\ st.n = 0

NoLaunch == \A i \in Indices : proc'[i] = "running" => proc[i] = "running"

\* C1: in a non-reckless run, in every reachable state in which some report
\* has been made, at least one record is Good and at least one is Bad.
C1_ReportsOnlyWhenValidated ==
    (~reckless /\ reported # <<>>) => (HasGood(commits) /\ HasBad(commits))

C1_Witness == ~reckless /\ Len(reported) > 0 /\ pc = "loop"

\* C2 (as claimed, in the case of its example, where no record of a bound is
\* resolved): in a non-reckless run, the iteration whose result first makes
\* both a Good and a Bad record exist reports exactly the flush: every
\* non-Unknown record, in ascending index order.
C2_FlushWhenValidated ==
    [][(/\ ~reckless
        /\ ~(HasGood(commits) /\ HasBad(commits))
        /\ HasGood(commits') /\ HasBad(commits')
        /\ commits'[0] = "Unknown" /\ commits'[len - 1] = "Unknown")
        => reported' = reported \o bisect_report_all(commits', len)]_vars

\* C3: when the completion picked is index 0 with a Bad result or the last
\* index with a Good result, the run halts in that iteration: the state is
\* unchanged (step is not called), nothing is reported, no worker is
\* launched, and nothing of this happens after the halt either.
C3_HaltOnBoundsViolation ==
    [][/\ (loop_iter' # loop_iter /\ ContradictsBound(picked'.idx, picked'.st))
           => /\ pc' = "halted"
              /\ UNCHANGED <<commits, assigned, runners, reported>>
              /\ NoLaunch
       /\ pc = "halted"
           => /\ pc' = "halted"
              /\ UNCHANGED <<commits, assigned, runners, reported, loop_iter>>
              /\ NoLaunch]_vars

C3_Witness ==
    /\ pc = "halted" /\ len = 5 /\ loop_iter = 1
    /\ picked.idx = 0 /\ picked.st.n = 1
    /\ reported = <<>>

\* C4 (as claimed, for reckless runs, whose workers all come from the
\* allocator): a completion that was seen at a poll, deferred, and not made
\* stale by the step of that iteration is processed in a later iteration: none
\* is ever discarded unprocessed.
C4_DeferredIsProcessed == reckless => \A i \in Indices : proc[i] # "dropped"

\* C4 (amended): an iteration applies exactly one completion to the state,
\* and every other completion seen at its poll that its step does not make
\* stale keeps its handle and its exit status, so that every later poll
\* detects it, until it is picked itself, a later step makes it stale, or the
\* run ends.
C4_DeferredStaysPending ==
    [][loop_iter' # loop_iter =>
          /\ \A i \in Indices : i # picked'.idx => commits'[i] = commits[i]
          /\ \A r \in Completed \ {picked'.idx} :
                \/ /\ r \in runners'
                   /\ proc'[r] = "seen"
                   /\ exit'[r] = exit[r]
                \/ /\ commits' # commits
                   /\ (r <= Lo(commits', len) \/ r >= Hi(commits', len))]_vars

C4_Witness ==
    /\ pc = "loop" /\ loop_iter >= 1
    /\ \E r \in runners : proc[r] = "seen" /\ Classify(exit[r]) = "Good"
    /\ \E r \in runners : proc[r] = "seen" /\ Classify(exit[r]) = "Bad"

\* C6 (as claimed): the orchestrator is never inside the main loop, waiting
\* for a completion, with an empty Assignment set.
C6_NoWaitWithoutAssignments == ~(pc = "loop" /\ assigned = {})

\* C7 (as claimed): when the run ends because no Assignment remains,
\* hi == lo + 1.
C7_DoneMeansAdjacent ==
    pc = "done" => Hi(commits, len) = Lo(commits, len) + 1

\* C7 (amended): when the run ends because no Assignment remains, every index
\* strictly between lo and hi is resolved Skip; hi == lo + 1 when no index
\* between them was skipped.
C7_DoneMeansExhausted ==
    pc = "done" =>
        LET lo == Lo(commits, len)
            hi == Hi(commits, len)
            inside == {i \in Idx(len) : lo < i /\ i < hi}
        IN  /\ \A i \in inside : commits[i] = "Skip"
            /\ (\A i \in inside : commits[i] # "Skip") => hi = lo + 1

C7_Witness ==
    /\ pc = "done"
    /\ Hi(commits, len) > Lo(commits, len) + 1
    /\ HasGood(commits) /\ HasBad(commits)

\* C8: the allocator's proposal contains no resolved index, no assigned index,
\* and at most `capacity` indices.
C8_ProposalIsFreshAndBounded ==
    pc = "proposed" =>
        /\ \A i \in new_runners : commits[i] = "Unknown"
        /\ new_runners \cap assigned = {}
        /\ Cardinality(new_runners) <= jobs

C8_Witness ==
    /\ pc = "proposed"
    /\ Cardinality(new_runners) = 1 /\ jobs = 2
    /\ \E i, j \in Idx(len) :
          /\ Lo(commits, len) < i /\ i < Hi(commits, len) /\ commits[i] = "Skip"
          /\ Lo(commits, len) < j /\ j < Hi(commits, len) /\ j \in assigned

\* C9 (as claimed): the proposal has exactly min(c, hi - lo - 1) indices, all
\* strictly between lo and hi, which cut (lo, hi) into at most c + 1 segments.
C9_ProposalSizeByInterval ==
    pc = "proposed" =>
        LET lo == Lo(commits, len)
            hi == Hi(commits, len)
        IN  /\ Cardinality(new_runners) = MinOf(jobs, hi - lo - 1)
            /\ \A i \in new_runners : lo < i /\ i < hi
            /\ Cardinality(new_runners) + 1 <= jobs + 1

\* C9 (amended): the proposal has exactly min(c, a) indices, a being the
\* number of indices strictly between lo and hi that are neither resolved nor
\* assigned (a = hi - lo - 1 when none of them is); all are strictly between
\* lo and hi and cut (lo, hi) into at most c + 1 segments.
C9_ProposalSizeByCandidates ==
    pc = "proposed" =>
        LET lo == Lo(commits, len)
            hi == Hi(commits, len)
            inside == {i \in Idx(len) : lo < i /\ i < hi}
            free == {i \in inside : commits[i] = "Unknown" /\ i \notin assigned}
        IN  /\ Cardinality(new_runners) = MinOf(jobs, Cardinality(free))
            /\ free = inside =>
                   Cardinality(new_runners) = MinOf(jobs, hi - lo - 1)
            /\ \A i \in new_runners : lo < i /\ i < hi
            /\ Cardinality(new_runners) + 1 <= jobs + 1

C9_Witness ==
    /\ pc = "proposed"
    /\ jobs = 3 /\ Cardinality(new_runners) = 2
    /\ Hi(commits, len) - Lo(commits, len) - 1 >= 3

\* C10: a step never widens the valid interval: lo never decreases and hi
\* never increases.
C10_MonotonicNarrowing ==
    [][loop_iter' # loop_iter =>
          /\ Lo(commits', len) >= Lo(commits, len)
          /\ Hi(commits', len) <= Hi(commits, len)]_vars

C10_Witness ==
    /\ loop_iter >= 2
    /\ Lo(commits, len) > 0
    /\ Hi(commits, len) < len - 1

\* C5: in a lockstep run of a sequence with a single good-to-bad transition,
\* the run goes on until hi == lo + 1 with no Assignment left (every step adds
\* to loop_iter or round, so a run that can always step until then gets
\* there), and never runs more than ceil(log_{jobs+1}(len)) rounds of
\* workers, that is, round = 0 or (jobs+1)^(round-1) < len.
RECURSIVE Pow(_, _)
Pow(b, e) == IF e = 0 THEN 1 ELSE b * Pow(b, e - 1)

Converged ==
    /\ pc # "start"
    /\ Hi(commits, len) = Lo(commits, len) + 1
    /\ assigned = {}

\* A state of a lockstep run in which no action is enabled: the run has left
\* the loop, or it polls with no runner left.
Stopped == pc # "start" /\ (pc # "loop" \/ runners = {})

StepCalled == loop_iter' # loop_iter /\ commits' # commits

\* Number of reports of index i in a sequence of reports.
RECURSIVE CountReports(_, _)
CountReports(reps, i) ==
    IF reps = <<>> THEN 0
    ELSE (IF Head(reps)[1] = i THEN 1 ELSE 0) + CountReports(Tail(reps), i)

\* C11: an iteration that picks a completion with exit code 124, at any index
\* (the oldest and the newest commit included), does not halt the run on a
\* bounds violation and leaves lo and hi as they were.
C11_SkipNeverMovesBounds ==
    [][(loop_iter' # loop_iter /\ picked'.st.n = 124)
         => /\ pc' # "halted"
            /\ Lo(commits', len) = Lo(commits, len)
            /\ Hi(commits', len) = Hi(commits, len)
            /\ (commits' # commits => commits'[picked'.idx] = "Skip")]_vars

C11_Witness ==
    /\ pc = "loop"
    /\ picked.idx = len - 1
    /\ picked.st.n = 124
    /\ commits[len - 1] = "Skip"
    /\ Lo(commits, len) = 0
    /\ Hi(commits, len) = len - 1

\* C12: in a reckless run, every iteration that calls step reports the result
\* it processed in that same iteration, whatever resolutions exist.
C12_RecklessReportsAtOnce ==
    [][(reckless /\ StepCalled)
         => /\ Len(reported') > Len(reported)
            /\ SubSeq(reported', 1, Len(reported)) = reported
            /\ \E k \in (Len(reported) + 1) .. Len(reported') :
                  reported'[k] = <<picked'.idx, commits'[picked'.idx]>>]_vars

C12_Witness ==
    /\ reckless
    /\ Len(reported) = 2
    /\ ~HasGood(commits)
    /\ \E i \in Idx(len) : commits[i] = "Skip"

\* C13: the Assignments, the worker handles the orchestrator holds and the
\* worker processes that run are each at most jobs, in every state; the
\* handles kept after the stale ones are cancelled, before the new workers
\* are launched, are a subset of the handles held before.
C13_AtMostJobsWorkers ==
    /\ Cardinality(assigned) <= jobs
    /\ Cardinality(runners) <= jobs
    /\ Cardinality({i \in Indices : proc[i] = "running"}) <= jobs

C13_Witness ==
    /\ pc = "loop"
    /\ jobs = MaxJobs
    /\ Cardinality(runners) = jobs
    /\ new_runners # {}
    /\ \E i \in Indices : proc[i] = "killed"

\* C14: the resolution step records is Good iff the exit code is 0, Skip iff
\* it is 124 and Bad for any other code; the number of a terminating signal
\* is classified as a code is.
C14_ClassificationIsTotal ==
    [][StepCalled
         => LET r == commits'[picked'.idx]
                n == picked'.st.n
            IN  /\ picked'.st.kind \in {"code", "signal"}
                /\ r \in {"Good", "Skip", "Bad"}
                /\ r = "Good" <=> n = 0
                /\ r = "Skip" <=> n = 124
                /\ r = "Bad" <=> (n # 0 /\ n # 124)]_vars

C14_Witness ==
    /\ picked.st.kind = "signal"
    /\ commits[picked.idx] = "Bad"
    /\ \E i \in Idx(len) : commits[i] = "Skip"
    /\ \E i \in Idx(len) : commits[i] = "Good"

\* C15: after an iteration that processed a result and ran to its end, every
\* handle and every Assignment lies strictly inside the recomputed (lo, hi),
\* and every other worker held before at an index outside it was killed and
\* is no longer in the table.
C15_StaleWorkersCancelled ==
    [][(StepCalled /\ pc' \in {"loop", "done"})
         => LET lo == Lo(commits', len)
                hi == Hi(commits', len)
            IN  /\ \A i \in assigned' \cup runners' : lo < i /\ i < hi
                /\ \A i \in runners \ {picked'.idx} :
                      (i <= lo \/ i >= hi)
                         => /\ i \notin runners'
                            /\ proc'[i] \in {"killed", "dropped"}]_vars

C15_Witness ==
    /\ pc = "loop"
    /\ \E i \in Indices : proc[i] = "killed" /\ i > 0 /\ i < len - 1
    /\ runners # {}
    /\ Hi(commits, len) < len - 1

\* C16: whenever an iteration starts, the handle table and the Assignments
\* hold the same indices; the workers an iteration starts are at indices no
\* handle was held for (no index gets a second worker); and the index of
\* every picked completion is among the Assignments, so its start time is
\* found.
C16_HandlesMatchAssignments ==
    [][/\ pc' = "loop" => runners' = assigned'
       /\ StepCalled => new_runners' \cap runners = {}
       /\ loop_iter' # loop_iter
             => (picked'.idx \in assigned /\ picked'.idx \in runners)]_vars

C16_Witness ==
    /\ pc = "loop"
    /\ loop_iter >= 2
    /\ runners = assigned
    /\ Cardinality(runners) >= 2
    /\ new_runners # {}
    /\ new_runners # runners

\* C17 (as claimed, in the runs where no result of a bound was processed):
\* at the end of every iteration, once the bounds are validated, every
\* non-Unknown record has been reported exactly once.
C17_EveryRecordReportedOnce ==
    (pc \in {"loop", "done"} /\ loop_iter >= 1
       /\ commits[0] = "Unknown" /\ commits[len - 1] = "Unknown"
       /\ bounds_validated(commits, len, reckless))
      => \A i \in Idx(len) :
            commits[i] # "Unknown" => CountReports(reported, i) = 1

\* C18: the completion of a worker whose assignment a step made stale (it
\* was killed, or dropped after a deferred completion) is never picked again:
\* its record stays Unknown and nothing is reported for it; and every result
\* passed to step is of a worker that was assigned, held and completed.
C18_StaleResultsNeverApplied ==
    [][/\ \A i \in Indices :
             proc[i] \in {"killed", "dropped"}
                => /\ commits[i] = "Unknown" /\ commits'[i] = "Unknown"
                   /\ CountReports(reported', i) = 0
                   /\ loop_iter' # loop_iter => picked'.idx # i
       /\ StepCalled
             => /\ picked'.idx \in assigned \cap runners
                /\ proc[picked'.idx] \in {"exited", "seen"}]_vars

C18_Witness ==
    /\ pc = "done"
    /\ \E i \in Indices : proc[i] = "dropped"
    /\ \E i \in Indices : proc[i] = "killed"
    /\ Len(reported) >= 2

\* C19: the iteration in which a kill of a stale worker fails ends the run:
\* it launches no worker and keeps the handle table, and no step follows it.
C19_KillFailureAborts ==
    [][/\ (\E i \in Indices : proc'[i] = "kill_failed")
             => /\ pc' = "panicked"
                /\ NoLaunch
                /\ runners' = runners
       /\ pc # "panicked"]_vars

C19_Witness ==
    /\ pc = "panicked"
    /\ \E i \in runners : proc[i] = "kill_failed"
    /\ new_runners # {}
    /\ \A i \in new_runners : i \notin runners /\ proc[i] # "running"

\* C20 (as claimed): when the run has ended, because no handle is left or by
\* a bounds-violation halt, no worker is running.
C20_NoWorkerOutlivesRun ==
    pc \in {"done", "halted"} => \A i \in Indices : proc[i] # "running"

TypeOK ==
    /\ len \in 2 .. MaxLen
    /\ jobs \in 0 .. MaxJobs
    /\ pc \in {"start", "loop", "done", "halted", "panicked"}
    /\ assigned \subseteq Idx(len)
    /\ runners \subseteq Idx(len)
====
